---------------------------- MODULE Spec2Model ----------------------------
(***************************************************************************)
(* Model of src/index.js: the App ID generator action.                     *)
(*                                                                         *)
(* One run of the action is the async main loop (lines 211-226) that       *)
(* starts up to max_retries attempts; an attempt is AppIdGenerator.        *)
(* runAction (lines 111-192).  Every `await` of a remote call is a step of *)
(* the model: the remote side (the pull-request listing and the App        *)
(* registry) answers with success or failure, and the code that follows    *)
(* the await up to the next await belongs to the same action.              *)
(*                                                                         *)
(* The registry is remote state that outlives a run, so the model lets run *)
(* follow run, each with its own inputs.                                   *)
(***************************************************************************)
EXTENDS Naturals, Integers, Sequences, FiniteSets, TLC

(* ------------------------------ bounds --------------------------------- *)

\* Largest number of Apps the registry holds (register fails beyond it);
\* before the first run it holds fewer.
MaxApps == 2

\* Largest value of the max_retries input.
MaxRetries == 3

\* Page size of the pull-request listing (per_page, scaled down; at least 2,
\* so that a page can be short without being empty).
PerPage == 2

\* Pull-request URLs (issue.pull_request.html_url, pr.html_url, app.github).
PRUrls == {"pr1", "pr2"}

\* Preview URLs (vercel_preview_url, app.redirect_uri).
PreviewUrls == {"u1", "u2"}

\* app.github of an App that carries no link (absent or empty: falsy).
NoGithub == ""

\* The github values an App can carry.
GithubTags == PRUrls \cup {NoGithub}

(* --------------------------- pure helpers ------------------------------ *)

\* A falsy value in the place of an App: what Array.prototype.find returns
\* when no element passes the test, and the false that createApp, updateApp
\* and getCreatedApps resolve with on failure.
Undefined == [app_id |-> 0, github |-> NoGithub, redirect_uri |-> ""]

\* Array.prototype.find: the first element of s among those at the indexes
\* that pass the test.
Find(s, passing) ==
    IF passing # {}
    THEN s[CHOOSE k \in passing : \A j \in passing : k <= j]
    ELSE Undefined

\* Array.prototype.includes on a sequence.
Includes(s, x) == \E k \in 1..Len(s) : s[k] = x

\* The elements of a sequence, as a set.
Range(s) == {s[k] : k \in 1..Len(s)}

\* The pull requests that can be open, in the order the listing API serves
\* them (newest first): those the action runs for, and one more that no run
\* and no App refers to.
OpenOrder == <<"pr3", "pr2", "pr1">>

\* The lists of open pull requests the listing API can hold, in the API's
\* order: every selection of the pull requests the action runs for, and the
\* list of all of them.  The extra pull request has no App, so the policy
\* never reads it; it is there to make a list of every length 0..3, and is
\* listed only with the others.
OpenLists ==
    {s \in UNION {[1..n -> Range(OpenOrder)] : n \in 0..Len(OpenOrder)} :
        /\ \A a, b \in DOMAIN s : a < b =>
              \E x, y \in 1..Len(OpenOrder) :
                  x < y /\ OpenOrder[x] = s[a] /\ OpenOrder[y] = s[b]
        /\ Includes(s, OpenOrder[1]) => Len(s) = Len(OpenOrder)}

(* ------------------------- the recycling policy ------------------------ *)

\* Mutant of AppToRecycle: the test forgets to compare app.github.
AppToRecycleAnyPr(apps, pr_url, preview) ==
    Find(apps, {k \in 1..Len(apps) : apps[k].redirect_uri # preview})

\* Lines 137-139: the App of this PR whose redirect_uri is out of date.
AppToRecycle(apps, pr_url, preview) ==
    Find(apps, {k \in 1..Len(apps) :
                    apps[k].github = pr_url /\ apps[k].redirect_uri # preview})

\* Lines 145-147: the App of this PR that already points at the preview URL.
ExistingApp(apps, pr_url, preview) ==
    Find(apps, {k \in 1..Len(apps) :
                    apps[k].github = pr_url /\ apps[k].redirect_uri = preview})

\* Mutant of GetRecyclableApp: the open pull requests are not consulted.
GetRecyclableAppAnyLinked(apps, open_prs) ==
    Find(apps, {k \in 1..Len(apps) : apps[k].github # NoGithub})

\* Mutant of GetRecyclableApp: the github field is not tested for a value.
GetRecyclableAppNoLinkTest(apps, open_prs) ==
    Find(apps, {k \in 1..Len(apps) : ~Includes(open_prs, apps[k].github)})

\* Mutant of GetRecyclableApp: the last recyclable App instead of the first.
GetRecyclableAppLast(apps, open_prs) ==
    LET passing == {k \in 1..Len(apps) :
                       /\ apps[k].github # NoGithub
                       /\ ~Includes(open_prs, apps[k].github)}
    IN  IF passing # {}
        THEN apps[CHOOSE k \in passing : \A j \in passing : j <= k]
        ELSE Undefined

\* Lines 165-168: the first App with a github link that is the URL of no
\* open pull request.
GetRecyclableApp(apps, open_prs) ==
    Find(apps, {k \in 1..Len(apps) :
                    /\ apps[k].github # NoGithub
                    /\ ~Includes(open_prs, apps[k].github)})

\* Lines 141-149: the No-op branch is entered when there is no App to
\* relabel and an App of this PR already points at the preview URL.
NoOpApp(apps, pr_url, preview) ==
    IF AppToRecycle(apps, pr_url, preview) = Undefined
    THEN ExistingApp(apps, pr_url, preview)
    ELSE Undefined

\* Line 170: existing_app = app_to_recycle || getRecyclableApp().
AppToUpdate(apps, open_prs, pr_url, preview) ==
    IF AppToRecycle(apps, pr_url, preview) # Undefined
    THEN AppToRecycle(apps, pr_url, preview)
    ELSE GetRecyclableApp(apps, open_prs)

\* Mutant of AppOptions: the github field is left out of the options.
AppOptionsNoGithub(pr_url, preview) ==
    [redirect_uri |-> preview, github |-> NoGithub]

\* Lines 172-177: app_options (name and scopes are fixed by the PR and
\* carry no decision; the model keeps the two fields the policy reads).
AppOptions(pr_url, preview) == [redirect_uri |-> preview, github |-> pr_url]

\* No request has been handed to the API object.
NoRequest == [type |-> "none", app_id |-> 0,
              options |-> [redirect_uri |-> "", github |-> NoGithub]]

\* Mutant of PolicyRequest: existing_app is not tested; an update is sent
\* with whatever app_id the lookup left.
PolicyRequestAlwaysUpdate(apps, open_prs, pr_url, preview) ==
    [type |-> "appUpdate",
     app_id |-> AppToUpdate(apps, open_prs, pr_url, preview).app_id,
     options |-> AppOptions(pr_url, preview)]

\* Lines 179-181 with 27-35 and 194-202: the request handed to the API
\* object: appUpdate of existing_app.app_id, or appRegister without app_id.
PolicyRequest(apps, open_prs, pr_url, preview) ==
    LET existing_app == AppToUpdate(apps, open_prs, pr_url, preview)
    IN  IF existing_app # Undefined
        THEN [type |-> "appUpdate", app_id |-> existing_app.app_id,
              options |-> AppOptions(pr_url, preview)]
        ELSE [type |-> "appRegister", app_id |-> 0,
              options |-> AppOptions(pr_url, preview)]

(* ----------------------------- outputs --------------------------------- *)

\* No core.setOutput call has been made in this run.
NoOutputs == [set |-> FALSE, pr_url |-> "", app_id |-> 0,
              should_post_comment |-> FALSE]

\* Lines 154-157: the outputs of the No-op branch.
NoOpOutputs(pr_url, existing_app) ==
    [set |-> TRUE, pr_url |-> pr_url, app_id |-> existing_app.app_id,
     should_post_comment |-> FALSE]

\* Lines 185-188: the outputs after a register or an update.
FinalOutputs(pr_url, app) ==
    [set |-> TRUE, pr_url |-> pr_url, app_id |-> app.app_id,
     should_post_comment |-> TRUE]

\* Mutant of OutputsAfter: the outputs are written before app is tested.
OutputsAfterUnchecked(current, pr_url, app) == FinalOutputs(pr_url, app)

\* Lines 183-188: what the outputs are once createApp/updateApp resolved
\* with app: a falsy app rejects before anything is written.
OutputsAfter(current, pr_url, app) ==
    IF app = Undefined THEN current ELSE FinalOutputs(pr_url, app)

(* --------------------------- the registry ------------------------------ *)

\* The app_id the registry gives to a newly registered App.
FreshId(reg) ==
    IF Len(reg) = 0 THEN 1
    ELSE 1 + (CHOOSE m \in {reg[k].app_id : k \in 1..Len(reg)} :
                 \A k \in 1..Len(reg) : reg[k].app_id <= m)

\* app_update: the mutable fields of the App with this app_id are replaced.
RegistryUpdate(reg, app_id, options) ==
    [k \in 1..Len(reg) |->
        IF reg[k].app_id = app_id
        THEN [app_id |-> app_id, github |-> options.github,
              redirect_uri |-> options.redirect_uri]
        ELSE reg[k]]

\* app_register: a new App with a fresh app_id is added.
RegistryRegister(reg, options) ==
    Append(reg, [app_id |-> FreshId(reg), github |-> options.github,
                 redirect_uri |-> options.redirect_uri])

\* The registry after it carried out a request.
RegistryApply(reg, req) ==
    IF req.type = "appUpdate" THEN RegistryUpdate(reg, req.app_id, req.options)
    ELSE IF req.type = "appRegister" THEN RegistryRegister(reg, req.options)
    ELSE reg

\* Whether the registry accepts a request (the model's registry is full at
\* MaxApps Apps and answers a further register with an error).
RegistryAccepts(reg, req) ==
    req.type = "appRegister" => Len(reg) < MaxApps

\* response[response.msg_type] of an accepted request: the App as stored.
ResponseApp(reg, req) ==
    IF req.type = "appUpdate"
    THEN [app_id |-> req.app_id, github |-> req.options.github,
          redirect_uri |-> req.options.redirect_uri]
    ELSE [app_id |-> FreshId(reg), github |-> req.options.github,
          redirect_uri |-> req.options.redirect_uri]

(* --------------------------- pagination -------------------------------- *)

\* octokit.pulls.list({per_page, page}): the page-th slice of the open list.
Page(open, page) ==
    LET lo == (page - 1) * PerPage + 1
        hi == IF page * PerPage < Len(open) THEN page * PerPage ELSE Len(open)
    IN  IF lo > Len(open) THEN <<>> ELSE SubSeq(open, lo, hi)

\* Mutant of MorePages: the loop goes on only after a full page.
MorePagesFull(data) == Len(data) >= PerPage

\* Line 79: the loop goes on to the next page while a page has items.
MorePages(data) == Len(data) > 0

\* Mutant of Accumulate: each page replaces the accumulator.
AccumulateReplace(acc, data) == data

\* Line 80: pull_requests.push(...current_pull_requests.data).
Accumulate(acc, data) == acc \o data

(* ----------------------- the steps of an attempt ----------------------- *)

\* Mutant of StepAfter: the created-apps listing is awaited before authorise.
StepAfterSwapped(step) ==
    IF step = "listPRs" THEN "appList"
    ELSE IF step = "appList" THEN "authorise"
    ELSE "awaitApp"

\* Lines 117, 128, 131, 179-181: the order in which runAction awaits its
\* remote steps.
StepAfter(step) ==
    IF step = "listPRs" THEN "authorise"
    ELSE IF step = "authorise" THEN "appList"
    ELSE "awaitApp"

\* Lines 72 and 100: a remote call is made; it is logged as pending.  page
\* is the page asked for (0 for a registry request).
Issue(log, op, page) ==
    Append(log, [op |-> op, page |-> page, result |-> "pending"])

\* Lines 72-93 and 101-107: the pending call settles ("ok", or rejected
\* with an "error" object, or rejected by the "transport").
Settle(log, result) == [log EXCEPT ![Len(log)].result = result]

(* --------------------------- the retry loop ---------------------------- *)

\* Mutant of LoopContinues: one attempt short (i < max_retries).
LoopContinuesShort(n, max) == n < max

\* Mutant of LoopContinues: one attempt too many (i <= max_retries + 1).
LoopContinuesOver(n, max) == n <= max + 1

\* Line 214: the loop condition i <= max_retries.
LoopContinues(n, max) == n <= max

\* Mutant of ResolveApiRequest: the catch handler resolves with the error
\* it caught (a truthy value) instead of false.
ResolveApiRequestTruthy(outcome) ==
    IF outcome = "transport" THEN "never" ELSE "value"

\* Lines 98-109: what the promise of resolveApiRequest does for each way
\* the API call can settle.  "ok": resolved with response[response.msg_type].
\* "error": rejected with a registry error object ({error: {message, code}}),
\* the catch handler resolves false.  "transport": rejected with a value
\* that has no error field, so reading error.error.message throws inside
\* the catch handler and resolve is never called.
ResolveApiRequest(outcome) ==
    IF outcome = "ok" THEN "value"
    ELSE IF outcome = "error" THEN "false"
    ELSE "never"

\* The ways an API call can settle.
Outcomes == {"ok", "error", "transport"}

\* Line 105: the TypeError thrown inside the catch handler is an unhandled
\* rejection, and what becomes of the process is the runtime's choice.
\* "crashed": node ends the process at once with exit status 1 (node 15 and
\* later by default), with no process.exit call, no core.setFailed and no
\* retry.  Where the runtime only warns (node before 15, or
\* --unhandled-rejections=warn/none) runAction's promise stays pending and
\* the main loop never resumes: "drained" when nothing keeps the event loop
\* alive (the socket has closed), so the process ends by itself with exit
\* status 0, no output and no process.exit call; "hung" when the open
\* socket keeps the process alive.
UnhandledRejection == {"crashed", "drained", "hung"}

(* ------------------------------ state ---------------------------------- *)

VARIABLES
    registry,       \* remote: the Apps of the account, in the order app_list returns them
    github_open,    \* remote: the open pull requests, in the order the listing returns them
    pr,             \* input: issue.pull_request.html_url
    preview_url,    \* input: vercel_preview_url
    max_retries,    \* input: max_retries
    i,              \* the loop counter of the main loop
    pc,             \* where the run is
    current_page,   \* getOpenPullRequests: the page cursor
    pull_requests,  \* getOpenPullRequests: the accumulator
    api,            \* this.api: 0 when unset, else the attempt that created the session
    authorised,     \* whether authorize succeeded on this.api
    apps,           \* the list getCreatedApps resolved with
    request,        \* the register/update request handed to this.api
    inflight,       \* whether that request is still unanswered
    outputs,        \* what core.setOutput wrote last
    exit_code,      \* the codes process.exit was called with (none or one)
    results,        \* how the attempts of this run ended, in order
    app,            \* what createApp/updateApp resolved with (Undefined: nothing, or false)
    ops             \* the remote calls of the current attempt, in the order made

vars == <<registry, github_open, pr, preview_url, max_retries, i, pc,
          current_page, pull_requests, api, authorised, apps, request,
          inflight, outputs, exit_code, results, app, ops>>

remote == <<registry, github_open>>
inputs == <<pr, preview_url, max_retries>>
lister == <<current_page, pull_requests>>
session == <<api, authorised>>

\* The Apps the registry can hold before the first run.
InitAppSet == [app_id : 1..MaxApps, github : GithubTags, redirect_uri : PreviewUrls]

\* The registry before the first run: the Apps are listed in the order they
\* were made (app_ids increase, with gaps) and each pull request has at most
\* one App (Apps without a github link are free).
InitRegistries ==
    {r \in UNION {[1..n -> InitAppSet] : n \in 0..(MaxApps - 1)} :
        /\ \A a, b \in DOMAIN r : a < b =>
              /\ r[a].app_id < r[b].app_id
              /\ (r[a].github = r[b].github => r[a].github = NoGithub)}

Init ==
    /\ registry \in InitRegistries
    /\ github_open = <<>>
    /\ pr = "pr1"
    /\ preview_url = "u1"
    /\ max_retries = 1
    /\ i = 1
    /\ pc = "idle"
    /\ current_page = 1
    /\ pull_requests = <<>>
    /\ api = 0
    /\ authorised = FALSE
    /\ apps = <<>>
    /\ request = NoRequest
    /\ inflight = FALSE
    /\ outputs = NoOutputs
    /\ exit_code = <<>>
    /\ results = <<>>
    /\ app = Undefined
    /\ ops = <<>>

(* ------------------------------ actions -------------------------------- *)

\* The job starts: the inputs are read (lines 113-115, 212) and the main
\* loop is entered with i = 1 (line 214).  The open pull requests are
\* whatever the repository holds at that time.
StartRun ==
    /\ pc = "idle"
    /\ \E p \in PRUrls, u \in PreviewUrls, m \in 1..MaxRetries, o \in OpenLists :
          /\ pr' = p
          /\ preview_url' = u
          /\ max_retries' = m
          /\ github_open' = o
    /\ i' = 1
    /\ pc' = "loop"
    /\ UNCHANGED <<registry, lister, session, apps, request, inflight,
                   outputs, exit_code, results, app, ops>>

\* The process is gone (it exited, the runtime ended it on the unhandled
\* rejection, it ended with nothing left to run, or the platform ended a
\* job that hung):
\* nothing of the run is left but the registry, and a later job can start.
JobEnds ==
    /\ pc \in {"exited", "crashed", "drained", "hung"}
    /\ ~inflight
    /\ pc' = "idle"
    /\ github_open' = <<>>
    /\ pr' = "pr1"
    /\ preview_url' = "u1"
    /\ max_retries' = 1
    /\ i' = 1
    /\ current_page' = 1
    /\ pull_requests' = <<>>
    /\ api' = 0
    /\ authorised' = FALSE
    /\ apps' = <<>>
    /\ request' = NoRequest
    /\ outputs' = NoOutputs
    /\ exit_code' = <<>>
    /\ results' = <<>>
    /\ app' = Undefined
    /\ ops' = <<>>
    /\ UNCHANGED <<registry, inflight>>

\* Lines 214-217 and 61-67: the loop condition holds, a new generator is
\* made and runAction starts listing the open pull requests.
StartAttempt ==
    /\ pc = "loop"
    /\ LoopContinues(i, max_retries)
    /\ pc' = "listPRs"
    /\ current_page' = 1
    /\ pull_requests' = <<>>
    /\ api' = 0
    /\ authorised' = FALSE
    /\ apps' = <<>>
    /\ request' = NoRequest
    /\ inflight' = FALSE
    /\ app' = Undefined
    /\ ops' = Issue(<<>>, "listPRs", 1)
    /\ UNCHANGED <<remote, inputs, i, outputs, exit_code, results>>

\* Lines 224-225: the loop ran out; core.setFailed and process.exit(1).
Exhausted ==
    /\ pc = "loop"
    /\ ~LoopContinues(i, max_retries)
    /\ pc' = "exited"
    /\ exit_code' = Append(exit_code, 1)
    /\ UNCHANGED <<remote, inputs, i, lister, session, apps, request,
                   inflight, outputs, results, app, ops>>

\* Lines 118/129/132/183 with 219-221 and the i++ of line 214: runAction
\* rejected, the main loop catches it and moves on to the next iteration.
AttemptFailed ==
    /\ pc' = "loop"
    /\ i' = i + 1
    /\ results' = Append(results, "failed")
    /\ inflight' = FALSE
    /\ ops' = Settle(ops, "error")
    /\ UNCHANGED <<inputs, lister, session, apps, request, exit_code, app>>

\* Lines 72-83: a page came back with items; they are appended and the
\* cursor advances.
ListPageMore ==
    /\ pc = "listPRs"
    /\ MorePages(Page(github_open, current_page))
    /\ pull_requests' = Accumulate(pull_requests, Page(github_open, current_page))
    /\ current_page' = current_page + 1
    /\ ops' = Issue(Settle(ops, "ok"), "listPRs", current_page + 1)
    /\ UNCHANGED <<remote, inputs, i, pc, session, apps, request, inflight,
                   outputs, exit_code, results, app>>

\* Lines 79, 85-88 and 117-128: an empty page came back; the accumulated
\* list is returned, the websocket and the API object are made and
\* authorize is sent.
ListPageLast ==
    /\ pc = "listPRs"
    /\ ~MorePages(Page(github_open, current_page))
    /\ api' = i
    /\ authorised' = FALSE
    /\ pc' = StepAfter("listPRs")
    /\ ops' = Issue(Settle(ops, "ok"), StepAfter("listPRs"), 0)
    /\ UNCHANGED <<remote, inputs, i, lister, apps, request, inflight,
                   outputs, exit_code, results, app>>

\* Lines 89-93 and 118: the page request threw; getOpenPullRequests
\* resolves false and runAction rejects.
ListPageFailed ==
    /\ pc = "listPRs"
    /\ AttemptFailed
    /\ UNCHANGED <<remote, outputs>>

\* Lines 12-25 and 128-131: the answer to authorize.
Authorise ==
    /\ pc = "authorise"
    /\ \E outcome \in Outcomes :
          \/ /\ ResolveApiRequest(outcome) = "value"
             /\ authorised' = (outcome = "ok")
             /\ pc' = StepAfter("authorise")
             /\ ops' = Issue(Settle(ops, outcome), StepAfter("authorise"), 0)
             /\ UNCHANGED <<remote, inputs, i, lister, api, apps, request,
                            inflight, outputs, exit_code, results, app>>
          \/ /\ ResolveApiRequest(outcome) = "false"
             /\ AttemptFailed
             /\ UNCHANGED <<remote, outputs>>
          \/ /\ ResolveApiRequest(outcome) = "never"
             /\ pc' \in UnhandledRejection
             /\ ops' = Settle(ops, outcome)
             /\ UNCHANGED <<remote, inputs, i, lister, session, apps, request,
                            inflight, outputs, exit_code, results, app>>

\* Lines 43-59 and 131-181: app_list answered with the Apps; the policy is
\* evaluated and the register/update request is handed to the API object.
\* In the No-op branch (lines 149-160) the outputs are written and
\* resolve() is called first, but the function does not return there: the
\* code below it runs on and still hands its request to the API object.
\* The main loop, resumed by resolve(), calls process.exit(0) (line 218)
\* before any answer to that request can arrive.
GetCreatedAppsOk ==
    /\ pc = "appList"
    /\ ResolveApiRequest("ok") = "value"
    /\ apps' = registry
    /\ request' = PolicyRequest(registry, pull_requests, pr, preview_url)
    /\ inflight' = TRUE
    /\ ops' = Issue(Settle(ops, "ok"),
                    PolicyRequest(registry, pull_requests, pr, preview_url).type, 0)
    /\ IF NoOpApp(registry, pr, preview_url) # Undefined
       THEN /\ outputs' = NoOpOutputs(pr, NoOpApp(registry, pr, preview_url))
            /\ pc' = "exited"
            /\ exit_code' = Append(exit_code, 0)
            /\ results' = Append(results, "ok")
       ELSE /\ pc' = StepAfter("appList")
            /\ UNCHANGED <<outputs, exit_code, results>>
    /\ UNCHANGED <<remote, inputs, i, lister, session, app>>

\* Lines 47-48 and 132: app_list failed.
GetCreatedAppsFailed ==
    /\ pc = "appList"
    /\ \E outcome \in Outcomes \ {"ok"} :
          \/ /\ ResolveApiRequest(outcome) = "false"
             /\ AttemptFailed
             /\ UNCHANGED <<remote, outputs>>
          \/ /\ ResolveApiRequest(outcome) = "never"
             /\ pc' \in UnhandledRejection
             /\ ops' = Settle(ops, outcome)
             /\ UNCHANGED <<remote, inputs, i, lister, session, apps, request,
                            inflight, outputs, exit_code, results, app>>

\* Lines 179-190 and 218: the registry carried out the request and answered
\* with the App; the outputs are written, runAction resolves and the main
\* loop calls process.exit(0).
AppResponseOk ==
    /\ pc = "awaitApp"
    /\ ResolveApiRequest("ok") = "value"
    /\ RegistryAccepts(registry, request)
    /\ registry' = RegistryApply(registry, request)
    /\ app' = ResponseApp(registry, request)
    /\ outputs' = OutputsAfter(outputs, pr, ResponseApp(registry, request))
    /\ inflight' = FALSE
    /\ ops' = Settle(ops, "ok")
    /\ pc' = "exited"
    /\ exit_code' = Append(exit_code, 0)
    /\ results' = Append(results, "ok")
    /\ UNCHANGED <<github_open, inputs, i, lister, session, apps, request>>

\* Lines 36/203 and 183: the registry answered with an error; nothing was
\* changed, createApp/updateApp resolve false and runAction rejects.
AppResponseError ==
    /\ pc = "awaitApp"
    /\ ResolveApiRequest("error") = "false"
    /\ outputs' = OutputsAfter(outputs, pr, Undefined)
    /\ AttemptFailed
    /\ UNCHANGED remote

\* Lines 104-105: the call was rejected without an error field (the
\* connection broke); the registry may or may not have carried the request
\* out; the promise of resolveApiRequest never settles and the runtime
\* ends the process or leaves it hanging.
AppResponseTransport ==
    /\ pc = "awaitApp"
    /\ ResolveApiRequest("transport") = "never"
    /\ \/ registry' = registry
       \/ /\ RegistryAccepts(registry, request)
          /\ registry' = RegistryApply(registry, request)
    /\ inflight' = FALSE
    /\ pc' \in UnhandledRejection
    /\ ops' = Settle(ops, "transport")
    /\ UNCHANGED <<github_open, inputs, i, lister, session, apps, request,
                   outputs, exit_code, results, app>>

\* The request the No-op branch left behind reached the registry before the
\* process was gone, and the registry carried it out.
AbandonedRequestApplied ==
    /\ pc = "exited"
    /\ inflight
    /\ RegistryAccepts(registry, request)
    /\ registry' = RegistryApply(registry, request)
    /\ inflight' = FALSE
    /\ UNCHANGED <<github_open, inputs, i, pc, lister, session, apps, request,
                   outputs, exit_code, results, app, ops>>

\* The request the No-op branch left behind never reached the registry, or
\* the registry refused it.
AbandonedRequestLost ==
    /\ pc = "exited"
    /\ inflight
    /\ inflight' = FALSE
    /\ UNCHANGED <<remote, inputs, i, pc, lister, session, apps, request,
                   outputs, exit_code, results, app, ops>>

Next ==
    \/ StartRun
    \/ JobEnds
    \/ StartAttempt
    \/ Exhausted
    \/ ListPageMore
    \/ ListPageLast
    \/ ListPageFailed
    \/ Authorise
    \/ GetCreatedAppsOk
    \/ GetCreatedAppsFailed
    \/ AppResponseOk
    \/ AppResponseError
    \/ AppResponseTransport
    \/ AbandonedRequestApplied
    \/ AbandonedRequestLost

Spec == Init /\ [][Next]_vars

\* The types of the state.
TypeOK ==
    /\ Len(registry) <= MaxApps
    /\ github_open \in OpenLists
    /\ pr \in PRUrls
    /\ preview_url \in PreviewUrls
    /\ max_retries \in 1..MaxRetries
    /\ i \in 1..(MaxRetries + 1)
    /\ pc \in {"idle", "loop", "listPRs", "authorise", "appList", "awaitApp",
               "exited", "crashed", "drained", "hung"}
    /\ api \in 0..MaxRetries
    /\ authorised \in BOOLEAN
    /\ inflight \in BOOLEAN
    /\ exit_code \in {<<>>, <<0>>, <<1>>}

(* ------------------------------ claims --------------------------------- *)

\* The policy has been evaluated in the current attempt: the list of Apps
\* came back and a request was handed to the API object.
PolicyRan == request.type # "none"

\* The run has ended with process.exit(0).
ExitedZero == pc = "exited" /\ exit_code = <<0>>

\* The exit status of the process: the code handed to process.exit (lines
\* 218 and 225); after the unhandled rejection of line 105, 1 when the
\* runtime ended the process and 0 when the process ended with its event
\* loop empty; empty while the process is alive.
ExitStatus ==
    IF pc = "crashed" THEN <<1>>
    ELSE IF pc = "drained" THEN <<0>>
    ELSE exit_code

\* Positions of the Apps of the current PR that point at the preview URL.
MatchIndexes(as) ==
    {k \in 1..Len(as) : as[k].github = pr /\ as[k].redirect_uri = preview_url}

\* Positions of the Apps of the current PR that point somewhere else.
StaleIndexes(as) ==
    {k \in 1..Len(as) : as[k].github = pr /\ as[k].redirect_uri # preview_url}

\* Positions of the Apps whose github link is the URL of no open PR.
RecyclableIndexes(as, open) ==
    {k \in 1..Len(as) : as[k].github # NoGithub /\ as[k].github \notin Range(open)}

\* C1: whenever the listed Apps contain an App of the current PR that
\* already points at the preview URL, the attempt takes the No-op outcome:
\* the run exits 0 with app_id that App's id and should_post_comment false.
C1_NoOpWhenMatchListed ==
    (PolicyRan /\ MatchIndexes(apps) # {}) =>
        /\ ExitedZero
        /\ outputs.set
        /\ outputs.should_post_comment = FALSE
        /\ \E k \in MatchIndexes(apps) : outputs.app_id = apps[k].app_id

\* C2: after a successful run the registry holds at most one App of the
\* current PR that points at the current preview URL.
C2_AtMostOneMatching ==
    ExitedZero => Cardinality(MatchIndexes(registry)) <= 1

\* C3: whenever a listed App belongs to the current PR but points at another
\* URL, the request issued is an update of that App (the first such App),
\* carrying redirect_uri = preview URL and github = the PR's URL; it is not a
\* register.
C3_RelabelInPlace ==
    (PolicyRan /\ StaleIndexes(apps) # {}) =>
        /\ request.type = "appUpdate"
        /\ request.options.redirect_uri = preview_url
        /\ request.options.github = pr
        /\ \E k \in StaleIndexes(apps) :
              /\ \A j \in StaleIndexes(apps) : k <= j
              /\ request.app_id = apps[k].app_id

\* C3 witness: a run relabelled an App of the current PR that was not the
\* first App listed, and ended with that App's id as output.
C3_Witness ==
    /\ ExitedZero
    /\ StaleIndexes(apps) # {}
    /\ 1 \notin StaleIndexes(apps)
    /\ request.type = "appUpdate"
    /\ outputs.app_id = request.app_id
    /\ \E k \in StaleIndexes(apps) : apps[k].app_id = outputs.app_id
    /\ \E k \in MatchIndexes(registry) : registry[k].app_id = outputs.app_id

\* C4: whenever no listed App belongs to the current PR and some listed App
\* is recyclable, the request issued is an update of the first recyclable
\* App in the listed order, and not a register.
C4_RecycleFirst ==
    (/\ PolicyRan
     /\ \A k \in 1..Len(apps) : apps[k].github # pr
     /\ RecyclableIndexes(apps, pull_requests) # {}) =>
        /\ request.type = "appUpdate"
        /\ \E k \in RecyclableIndexes(apps, pull_requests) :
              /\ \A j \in RecyclableIndexes(apps, pull_requests) : k <= j
              /\ request.app_id = apps[k].app_id

\* C4 witness: two recyclable Apps were listed, none of the current PR, and
\* the run ended having recycled the first of them.
C4_Witness ==
    /\ ExitedZero
    /\ \A k \in 1..Len(apps) : apps[k].github # pr
    /\ Cardinality(RecyclableIndexes(apps, pull_requests)) >= 2
    /\ request.type = "appUpdate"
    /\ outputs.should_post_comment
    /\ \E k \in RecyclableIndexes(apps, pull_requests) :
          /\ \A j \in RecyclableIndexes(apps, pull_requests) : k <= j
          /\ outputs.app_id = apps[k].app_id

\* C5: a register request (without app_id) is issued exactly when no listed
\* App belongs to the current PR and no listed App is recyclable.
C5_RegisterOnlyWhenNothingToReuse ==
    PolicyRan =>
        /\ (request.type = "appRegister") <=>
              (/\ \A k \in 1..Len(apps) : apps[k].github # pr
               /\ RecyclableIndexes(apps, pull_requests) = {})
        /\ request.type = "appRegister" => request.app_id = 0

\* C6: when the run exits 0, should_post_comment is false exactly when an
\* App of the current PR pointing at the preview URL was already listed.
C6_CommentFlagFalseIffNoOp ==
    ExitedZero =>
        ((outputs.should_post_comment = FALSE) <=> (MatchIndexes(apps) # {}))

\* C7: when the run exits 0, the app_id output is the id of an App that the
\* registry then holds with github = the PR's URL and redirect_uri = the
\* preview URL.
C7_OutputAppMatches ==
    ExitStatus = <<0>> =>
        /\ outputs.set
        /\ \E k \in MatchIndexes(registry) : registry[k].app_id = outputs.app_id

\* The case of C7 on a run ended by process.exit(0): a run registered a new
\* App and ended with its fresh id, an id no listed App had.
C7_Witness ==
    /\ ExitedZero
    /\ request.type = "appRegister"
    /\ outputs.should_post_comment
    /\ \A k \in 1..Len(apps) : apps[k].app_id # outputs.app_id
    /\ \E k \in MatchIndexes(registry) : registry[k].app_id = outputs.app_id

\* An attempt is under way (runAction has been called and has not settled).
InAttempt == pc \in {"listPRs", "authorise", "appList", "awaitApp", "hung"}

\* Every attempt recorded so far failed.
AllFailed == \A k \in 1..Len(results) : results[k] = "failed"

\* C8: the run exits 0 exactly when one of the first max_retries attempts
\* completed successfully (all attempts before it having failed); it exits
\* 1 only when no attempt completed successfully, and the main loop calls
\* process.exit(1) only after max_retries attempts that all failed.
C8_ExitCode ==
    /\ ExitStatus = <<0>> <=>
          (results # <<>> /\ results[Len(results)] = "ok")
    /\ ExitStatus = <<0>> =>
          /\ Len(results) <= max_retries
          /\ \A k \in 1..(Len(results) - 1) : results[k] = "failed"
    /\ ExitStatus = <<1>> => (Len(results) <= max_retries /\ AllFailed)
    /\ exit_code = <<1>> => (Len(results) = max_retries /\ AllFailed)
    /\ (Len(results) = max_retries /\ AllFailed /\ pc # "idle") =>
          /\ pc \in {"loop", "exited"}
          /\ pc = "exited" => exit_code = <<1>>

\* The example of C8 on the main loop's own exits: with max_retries = 3,
\* attempts 1 and 2 failed, attempt 3 succeeded and the run exited 0.
C8_Witness ==
    /\ max_retries = 3
    /\ results = <<"failed", "failed", "ok">>
    /\ ExitedZero
    /\ outputs.set

\* C9: an attempt under way is at most the max_retries-th, every attempt
\* before it failed, and once an attempt has succeeded the run has exited
\* and nothing of it is under way.
C9_AttemptsBounded ==
    /\ InAttempt =>
          /\ i <= max_retries
          /\ Len(results) = i - 1
          /\ AllFailed
    /\ \A k \in 1..Len(results) :
          results[k] = "ok" => (k = Len(results) /\ pc = "exited")
    /\ Len(results) <= max_retries

\* C9 witness: the third and last attempt is under way, awaiting the answer
\* to its register/update request, after two failed attempts.
C9_Witness ==
    /\ pc = "awaitApp"
    /\ i = 3
    /\ max_retries = 3
    /\ results = <<"failed", "failed">>

\* C10: a run that exits 1 has set no output, and outputs are set only by an
\* attempt that ends the run with exit code 0.
C10_NoOutputsOnFailure ==
    /\ ExitStatus = <<1>> => ~outputs.set
    /\ outputs.set => ExitedZero

\* C10 witness: the run exited 1 after attempts whose register/update
\* request was refused, with no output set.
C10_Witness ==
    /\ pc = "exited"
    /\ exit_code = <<1>>
    /\ max_retries >= 2
    /\ request.type # "none"
    /\ ~outputs.set

\* C11: appList, register and update are issued only in an attempt whose own
\* session (the API object made by that attempt) has been authorised; the
\* session of an earlier attempt is never the one in use.
C11_AuthorisedOwnSession ==
    /\ pc \in {"appList", "awaitApp"} => (api = i /\ authorised)
    /\ (PolicyRan /\ (ExitedZero \/ pc \in UnhandledRejection)) =>
          (api = i /\ authorised)
    /\ \A k \in 1..Len(ops) :
          ops[k].op \in {"appList", "appUpdate", "appRegister"} =>
              \E j \in 1..(k - 1) : ops[j].op = "authorise" /\ ops[j].result = "ok"

\* C11 witness: the second attempt, after a failed first one, awaits the
\* answer to its register/update on the session it made and authorised.
C11_Witness ==
    /\ pc = "awaitApp"
    /\ results = <<"failed">>
    /\ i = 2
    /\ api = 2
    /\ authorised
    /\ ops[Len(ops)].op \in {"appUpdate", "appRegister"}

\* Position of a remote operation in the order the spec gives.
OpRank(op) ==
    IF op = "listPRs" THEN 1
    ELSE IF op = "authorise" THEN 2
    ELSE IF op = "appList" THEN 3
    ELSE 4

\* C12: the remote operations of an attempt are issued in the order
\* ListPRs, Authorize, ListApps, Register/Update, none skipped and only the
\* page listing repeated; an operation is issued only when every earlier one
\* answered; after a Failure the attempt issues nothing and writes no output.
C12_StepsInOrder ==
    /\ ops # <<>> => OpRank(ops[1].op) = 1
    /\ \A k \in 1..(Len(ops) - 1) :
          /\ ops[k].result = "ok"
          /\ OpRank(ops[k + 1].op) \in {OpRank(ops[k].op), OpRank(ops[k].op) + 1}
          /\ OpRank(ops[k + 1].op) = OpRank(ops[k].op) => ops[k].op = "listPRs"
    /\ (ops # <<>> /\ ops[Len(ops)].result = "error") =>
          /\ pc \in {"loop", "exited"}
          /\ ~inflight
          /\ ~outputs.set

\* C12 witness: the listing of the created apps failed after two pages of
\* pull requests and an authorise; nothing was requested after it.
C12_Witness ==
    /\ pc = "loop"
    /\ Len(ops) > OpRank("appList")
    /\ ops[Len(ops)].op = "appList"
    /\ ops[Len(ops)].result = "error"
    /\ ~inflight
    /\ ~outputs.set

\* The register/update requests the current attempt has issued.
TerminalRequests == {k \in 1..Len(ops) : ops[k].op \in {"appUpdate", "appRegister"}}

\* C13: an attempt performs exactly one terminal action: once No-op is taken
\* (outputs written with should_post_comment false) no register or update is
\* attempted, and an attempt issues at most one register/update.
C13_NoRequestAfterNoOp ==
    /\ (outputs.set /\ ~outputs.should_post_comment) => TerminalRequests = {}
    /\ Cardinality(TerminalRequests) <= 1
    /\ (PolicyRan /\ ExitedZero) =>
          (TerminalRequests = {} <=> ~outputs.should_post_comment)

\* The pages 1..n of the open pull requests, one after the other.
RECURSIVE PagesConcat(_, _)
PagesConcat(open, n) ==
    IF n = 0 THEN <<>> ELSE PagesConcat(open, n - 1) \o Page(open, n)

\* getOpenPullRequests has returned its list in the current attempt.
ListerReturned == \E k \in 1..Len(ops) : ops[k].op # "listPRs"

\* C14: getOpenPullRequests returns the pages 1, 2, ... before the first
\* empty page, concatenated in order, and that is the whole open list; when a
\* page request fails the attempt fails, and the policy is never evaluated on
\* a partial accumulation.
C14_WholeListOrFailure ==
    /\ ListerReturned =>
          /\ pull_requests = PagesConcat(github_open, current_page - 1)
          /\ pull_requests = github_open
          /\ Page(github_open, current_page) = <<>>
          /\ \A p \in 1..(current_page - 1) : Page(github_open, p) # <<>>
    /\ PolicyRan => (ListerReturned /\ pull_requests = github_open)
    /\ (~ListerReturned /\ pc \in {"loop", "exited"} /\ ops # <<>>) =>
          (ops[Len(ops)].result = "error" /\ ~PolicyRan /\ apps = <<>> /\ api = 0)

\* C14 witness: a list longer than a page was returned whole and the policy
\* was evaluated on it.
C14_Witness ==
    /\ PolicyRan
    /\ ExitedZero
    /\ Len(github_open) > PerPage
    /\ pull_requests = github_open
    /\ current_page > Len(github_open) \div PerPage + 1

\* The page requests the current attempt's lister has been answered.
AnsweredPages == {k \in 1..Len(ops) : ops[k].op = "listPRs" /\ ops[k].result = "ok"}

\* C15 as stated: the cursor advances 1, 2, 3, ... by one and no page is
\* requested after the first short page (fewer items than the page size).
C15_StopsAfterShortPage ==
    /\ \A k \in 1..Len(ops) : ops[k].op = "listPRs" => ops[k].page = k
    /\ \A k \in AnsweredPages :
          Len(Page(github_open, ops[k].page)) < PerPage =>
              \A l \in (k + 1)..Len(ops) : ops[l].op # "listPRs"

\* C15 amended: the cursor advances 1, 2, 3, ... by one and the next page is
\* requested exactly when the page answered had items: the lister stops
\* after the first empty page, so a short page with items is followed by one
\* more request.
C15_StopsAfterEmptyPage ==
    /\ \A k \in 1..Len(ops) : ops[k].op = "listPRs" => ops[k].page = k
    /\ \A k \in AnsweredPages :
          /\ k < Len(ops)
          /\ ops[k + 1].op = "listPRs" <=> Page(github_open, ops[k].page) # <<>>
    /\ pc = "listPRs" => (ops[Len(ops)].op = "listPRs" /\ ops[Len(ops)].page = current_page)

\* C15 witness: the lister returned after a full page, a short page with
\* items and the empty page that followed it.
C15_Witness ==
    /\ ListerReturned
    /\ \E k \in AnsweredPages :
          /\ k > 1
          /\ Len(Page(github_open, k - 1)) = PerPage
          /\ Len(Page(github_open, k)) < PerPage
          /\ Page(github_open, k) # <<>>
          /\ (k + 1) \in AnsweredPages
          /\ (k + 2) \notin AnsweredPages

\* C16: every failed registry request, whatever the rejection carries, makes
\* resolveApiRequest resolve false: the awaiting step receives the value and
\* the attempt fails; no request is left on a promise that never settles
\* or as an unhandled fault.
C16_FailureResolvesFalse ==
    /\ \A k \in 1..Len(ops) :
          (ops[k].op # "listPRs" /\ ops[k].result \in Outcomes \ {"ok"}) =>
              (ResolveApiRequest(ops[k].result) = "false" /\ pc \in {"loop", "exited"})
    /\ pc \notin UnhandledRejection

\* The app_ids the registry has answered with in the current attempt: those
\* of the app_list response and that of the register/update response.
ReceivedIds ==
    {apps[k].app_id : k \in 1..Len(apps)} \cup
        (IF app # Undefined THEN {app.app_id} ELSE {})

\* C17: the app_id sent as the target of an update and the app_id written to
\* the outputs are app_ids the registry answered with earlier in the same
\* attempt: the update target is listed in this attempt's app_list response
\* and the output is listed there or is the id of the App the register or
\* update answered with.
C17_AppIdFromRegistry ==
    /\ request.type = "appUpdate" =>
          \E k \in 1..Len(apps) : apps[k].app_id = request.app_id
    /\ outputs.set => outputs.app_id \in ReceivedIds
    /\ (outputs.set /\ outputs.should_post_comment) =>
          (app # Undefined /\ outputs.app_id = app.app_id)
    /\ (outputs.set /\ ~outputs.should_post_comment) =>
          \E k \in 1..Len(apps) : apps[k].app_id = outputs.app_id

\* C17 witness: after a failed attempt, the next one listed the apps, sent
\* an update for a listed App and wrote the id the registry answered with.
C17_Witness ==
    /\ ExitedZero
    /\ results = <<"failed", "ok">>
    /\ request.type = "appUpdate"
    /\ request.app_id \in {apps[k].app_id : k \in 1..Len(apps)}
    /\ outputs.should_post_comment
    /\ outputs.app_id = app.app_id

\* The steps of the run itself: the main loop and the answers to the remote
\* calls it awaits (the job's start and teardown and the fate of an
\* abandoned request are not steps of the run).
RunStep ==
    \/ StartAttempt
    \/ Exhausted
    \/ ListPageMore
    \/ ListPageLast
    \/ ListPageFailed
    \/ Authorise
    \/ GetCreatedAppsOk
    \/ GetCreatedAppsFailed
    \/ AppResponseOk
    \/ AppResponseError
    \/ AppResponseTransport

\* C18: every remote call being answered, the run terminates with exit code
\* 0 or 1: the page cursor never passes the first empty page, the attempt
\* counter never passes max_retries + 1, and a run that has not exited can
\* always take its next step.
C18_RunTerminates ==
    /\ current_page <= (Len(github_open) + PerPage - 1) \div PerPage + 1
    /\ (pc # "idle") => i <= max_retries + 1
    /\ \A k \in 1..Len(ExitStatus) : ExitStatus[k] \in {0, 1}
    /\ (pc \notin {"idle", "exited", "crashed", "drained"}) => ENABLED RunStep

\* The listed Apps the pending or answered update request is aimed at.
UpdateTargets ==
    IF request.type = "appUpdate"
    THEN {k \in 1..Len(apps) : apps[k].app_id = request.app_id}
    ELSE {}

\* C19: an update is aimed only at an App tagged with the current pull
\* request or at an App whose github URL is not in the open list fetched in
\* this attempt; never at the App of another open pull request.
C19_UpdateSparesOpenPrs ==
    \A k \in UpdateTargets :
        \/ apps[k].github = pr
        \/ ~Includes(pull_requests, apps[k].github)

\* C19 witness: the first listed App belongs to another open pull request;
\* the update went past it to a later App and was carried out.
C19_Witness ==
    /\ ExitedZero
    /\ outputs.should_post_comment
    /\ UpdateTargets # {}
    /\ Len(apps) > 1
    /\ apps[1].github # pr
    /\ Includes(pull_requests, apps[1].github)
    /\ 1 \notin UpdateTargets
    /\ \A k \in UpdateTargets : registry[k].github = pr

\* The listed Apps that this action does not manage: no github link.
UnmanagedIndexes == {k \in 1..Len(apps) : apps[k].github = NoGithub}

\* C20: an App without a github link is never the target of an update and
\* its app_id is never written to the outputs.
C20_UnmanagedUntouched ==
    /\ UpdateTargets \cap UnmanagedIndexes = {}
    /\ outputs.set =>
          \A k \in UnmanagedIndexes : apps[k].app_id # outputs.app_id
    /\ \A k \in UnmanagedIndexes :
          (k <= Len(registry) /\ registry[k].app_id = apps[k].app_id) =>
              registry[k] = apps[k]

\* C20 witness: an unmanaged App is listed first; the policy passed over it,
\* recycled a later App of a closed pull request and emitted that App's id.
C20_Witness ==
    /\ ExitedZero
    /\ outputs.should_post_comment
    /\ 1 \in UnmanagedIndexes
    /\ UpdateTargets # {}
    /\ \A k \in UpdateTargets : apps[k].github # pr /\ apps[k].app_id = outputs.app_id

=============================================================================
